---- MODULE Spec2Model ----
(***************************************************************************)
(* Model of the file merger (src/smhX.py): the extension filter            *)
(* FileMerger.is_text_file, the tree listing                               *)
(* FileMerger.get_directory_structure, FileMerger.merge_files and main.     *)
(*                                                                         *)
(* Python strings are modelled as sequences of one-character strings so    *)
(* that basename, splitext, lower, startswith, replace, count, join and    *)
(* relpath are computed character by character as the library does.        *)
(***************************************************************************)
EXTENDS Integers, Sequences, FiniteSets, TLC

(***************************************************************************)
(* Bounds of the model.                                                    *)
(***************************************************************************)
\* longest generated file name handed to is_text_file
MaxNameLen == 4

(***************************************************************************)
(* Characters and string literals.                                         *)
(***************************************************************************)
SEP == "/"

EXTSEP == "."

UpperChars ==
  <<"A","B","C","D","E","F","G","H","I","J","K","L","M",
    "N","O","P","Q","R","S","T","U","V","W","X","Y","Z">>

LowerChars ==
  <<"a","b","c","d","e","f","g","h","i","j","k","l","m",
    "n","o","p","q","r","s","t","u","v","w","x","y","z">>

\* str.lower() on one character
LowerChar(c) ==
  IF \E i \in 1..Len(UpperChars) : UpperChars[i] = c
  THEN LowerChars[CHOOSE i \in 1..Len(UpperChars) : UpperChars[i] = c]
  ELSE c

\* str.lower()
lower(s) == [i \in 1..Len(s) |-> LowerChar(s[i])]

\* str.rfind(c) for a single character, 1-based; 0 when c does not occur
rfind(s, c) ==
  IF \E i \in 1..Len(s) : s[i] = c
  THEN CHOOSE i \in 1..Len(s) : s[i] = c /\ \A j \in (i+1)..Len(s) : s[j] # c
  ELSE 0

\* str.startswith(prefix)
startswith(s, prefix) ==
  /\ Len(prefix) <= Len(s)
  /\ SubSeq(s, 1, Len(prefix)) = prefix

\* str.count(c) for a single character
count(s, c) == Cardinality({i \in 1..Len(s) : s[i] = c})

\* s[n:], the string without its first n characters
Drop(s, n) == SubSeq(s, n + 1, Len(s))

RECURSIVE replace(_, _)
\* str.replace(old, ''): every non-overlapping occurrence of old, scanning
\* from the left, is removed (old is never empty here)
replace(s, old) ==
  IF Len(s) < Len(old) THEN s
  ELSE IF startswith(s, old) THEN replace(Drop(s, Len(old)), old)
  ELSE <<Head(s)>> \o replace(Tail(s), old)

\* os.path.basename (posixpath): everything after the last separator
basename(p) == Drop(p, rfind(p, SEP))

\* os.path.splitext(p)[1] (genericpath._splitext): the suffix from the last
\* dot of the last component, unless that component has only dots before it
splitext(p) ==
  LET sepIndex == rfind(p, SEP)
      dotIndex == rfind(p, EXTSEP)
  IN IF /\ dotIndex > sepIndex
        /\ \E k \in (sepIndex + 1)..(dotIndex - 1) : p[k] # EXTSEP
     THEN Drop(p, dotIndex - 1)
     ELSE <<>>

\* os.path.join(a, b) for a relative b
join(a, b) ==
  IF a = <<>> \/ a[Len(a)] = SEP THEN a \o b ELSE a \o <<SEP>> \o b

(***************************************************************************)
(* FileMerger.__init__                                                     *)
(***************************************************************************)
supported_extensions ==
  {
    <<".","h","t","m","l">>, <<".","h","t","m">>, <<".","x","h","t","m","l">>, <<".","c","s","s">>,
    <<".","l","e","s","s">>, <<".","s","a","s","s">>, <<".","s","c","s","s">>, <<".","j","s">>,
    <<".","j","s","x">>, <<".","t","s">>, <<".","t","s","x">>, <<".","c","j","s">>,
    <<".","m","j","s">>, <<".","v","u","e">>, <<".","s","v","e","l","t","e">>,
    <<".","w","e","b","m","a","n","i","f","e","s","t">>, <<".","h","t","a","c","c","e","s","s">>,
    <<".","p","y">>, <<".","p","y","i">>, <<".","p","y","x">>, <<".","p","x","d">>,
    <<".","p","x","i">>, <<".","p","y","c">>, <<".","p","y","d">>, <<".","p","y","w">>,
    <<".","i","p","y","n","b">>, <<".","r","p","y">>, <<".","p","y","z">>, <<".","w","h","l">>,
    <<".","j","a","v","a">>, <<".","c","l","a","s","s">>, <<".","j","a","r">>, <<".","w","a","r">>,
    <<".","j","s","p">>, <<".","j","s","p","x">>, <<".","g","r","a","d","l","e">>,
    <<".","g","r","o","o","v","y">>, <<".","g","v","y">>, <<".","g","y">>, <<".","g","s","h">>,
    <<".","k","t">>, <<".","k","t","s">>, <<".","k","t","m">>, <<".","s","c","a","l","a">>,
    <<".","s","c">>, <<".","c","l","j">>, <<".","c","l","j","s">>, <<".","c","l","j","c">>,
    <<".","e","d","n">>, <<".","c">>, <<".","c","p","p">>, <<".","c","c">>, <<".","c","x","x">>,
    <<".","c","+","+">>, <<".","h">>, <<".","h","p","p">>, <<".","h","h">>, <<".","h","x","x">>,
    <<".","h","+","+">>, <<".","i","n","l">>, <<".","i","n","c">>, <<".","i","x","x">>,
    <<".","d","e","f">>, <<".","t","c","c">>, <<".","c","s">>, <<".","c","s","x">>,
    <<".","v","b">>, <<".","f","s">>, <<".","f","s","x">>, <<".","f","s","i">>,
    <<".","f","s","s","c","r","i","p","t">>, <<".","x","a","m","l">>, <<".","r","a","z","o","r">>,
    <<".","c","s","h","t","m","l">>, <<".","v","b","h","t","m","l">>, <<".","a","s","p","x">>,
    <<".","a","s","c","x">>, <<".","p","h","p">>, <<".","p","h","p","3">>, <<".","p","h","p","4">>,
    <<".","p","h","p","5">>, <<".","p","h","t","m","l">>, <<".","p","h","p","s">>,
    <<".","p","h","a","r">>, <<".","r","b">>, <<".","r","b","w">>, <<".","r","a","k","e">>,
    <<".","g","e","m","s","p","e","c">>, <<".","r","u">>, <<".","e","r","b">>,
    <<".","r","h","t","m","l">>, <<".","r","j","s">>, <<".","r","x","m","l">>,
    <<".","b","u","i","l","d","e","r">>, <<".","g","o">>, <<".","m","o","d">>, <<".","s","u","m">>,
    <<".","w","o","r","k">>, <<".","r","s">>, <<".","r","l","i","b">>, <<".","r","s","t">>,
    <<".","s","w","i","f","t">>, <<".","m">>, <<".","m","m">>, <<".","m","e","t","a","l">>,
    <<".","s","h">>, <<".","b","a","s","h">>, <<".","z","s","h">>, <<".","f","i","s","h">>,
    <<".","k","s","h">>, <<".","c","s","h">>, <<".","t","c","s","h">>, <<".","b","a","t">>,
    <<".","c","m","d">>, <<".","p","s","1">>, <<".","p","s","m","1">>, <<".","p","s","d","1">>,
    <<".","v","b","s">>, <<".","v","b","e">>, <<".","w","s","f">>, <<".","w","s","c">>,
    <<".","s","q","l">>, <<".","m","y","s","q","l">>, <<".","p","g","s","q","l">>,
    <<".","p","l","s","q","l">>, <<".","o","r","a">>, <<".","s","p","l">>, <<".","h","q","l">>,
    <<".","q","m","l">>, <<".","p","r","i","s","m","a">>, <<".","j","s","o","n">>,
    <<".","j","s","o","n","c">>, <<".","j","s","o","n","5">>, <<".","y","a","m","l">>,
    <<".","y","m","l">>, <<".","t","o","m","l">>, <<".","i","n","i">>, <<".","c","o","n","f">>,
    <<".","c","o","n","f","i","g">>, <<".","c","f","g">>,
    <<".","p","r","o","p","e","r","t","i","e","s">>, <<".","p","r","o","p">>, <<".","e","n","v">>,
    <<".","e","d","i","t","o","r","c","o","n","f","i","g">>, <<".","b","a","b","e","l","r","c">>,
    <<".","e","s","l","i","n","t","r","c">>, <<".","p","r","e","t","t","i","e","r","r","c">>,
    <<".","d","o","c","k","e","r","i","g","n","o","r","e">>,
    <<".","g","i","t","i","g","n","o","r","e">>, <<".","n","p","m","r","c">>,
    <<".","y","a","r","n","r","c">>, <<".","g","i","t","a","t","t","r","i","b","u","t","e","s">>,
    <<".","m","d">>, <<".","m","a","r","k","d","o","w","n">>, <<".","m","d","o","w","n">>,
    <<".","m","k","d">>, <<".","m","k","d","n">>, <<".","m","d","w","n">>,
    <<".","m","d","t","x","t">>, <<".","m","d","t","e","x","t">>, <<".","t","x","t">>,
    <<".","t","e","x","t">>, <<".","a","s","c","i","i","d","o","c">>, <<".","a","d","o","c">>,
    <<".","a","s","c">>, <<".","c","r","e","o","l","e">>, <<".","w","i","k","i">>,
    <<".","m","e","d","i","a","w","i","k","i">>, <<".","t","e","x">>, <<".","l","t","x">>,
    <<".","l","a","t","e","x">>, <<".","x","m","l">>, <<".","x","s","l">>, <<".","x","s","l","t">>,
    <<".","s","v","g">>, <<".","w","s","d","l">>, <<".","d","t","d">>, <<".","x","s","d">>,
    <<".","r","s","s">>, <<".","a","t","o","m">>, <<".","c","s","v">>, <<".","t","s","v">>,
    <<".","o","d","s">>, <<".","o","t","s">>, <<".","d","a","r","t">>, <<".","p","l","i","s","t">>,
    <<".","s","t","o","r","y","b","o","a","r","d">>, <<".","x","i","b">>,
    <<".","p","b","x","p","r","o","j">>,
    <<".","x","c","w","o","r","k","s","p","a","c","e","d","a","t","a">>,
    <<".","x","c","s","c","h","e","m","e">>, <<".","l","u","a">>, <<".","t","c","l">>,
    <<".","t","k">>, <<".","r">>, <<".","r","m","d">>, <<".","j","u","l","i","a">>,
    <<".","j","l">>, <<".","f">>, <<".","f","9","0">>, <<".","f","9","5">>, <<".","f","0","3">>,
    <<".","f","0","8">>, <<".","f","o","r">>, <<".","f","7","7">>, <<".","h","s">>,
    <<".","l","h","s">>, <<".","e","l","m">>, <<".","e","r","l">>, <<".","h","r","l">>,
    <<".","e","x">>, <<".","e","x","s">>, <<".","e","e","x">>, <<".","l","e","e","x">>,
    <<".","h","e","e","x">>, <<".","m","l">>, <<".","m","l","i">>, <<".","p","p">>,
    <<".","p","a","s">>, <<".","d","p","r">>, <<".","d","p","k">>, <<".","c","m","a","k","e">>,
    <<".","m","a","k","e">>, <<".","m","k">>, <<".","m","a","k">>,
    <<".","d","o","c","k","e","r","f","i","l","e">>, <<".","l","o","c","k">>,
    <<".","g","e","m","f","i","l","e">>, <<".","r","a","k","e","f","i","l","e">>,
    <<".","n","u","s","p","e","c">>, <<".","n","u","p","k","g">>, <<".","c","s","p","r","o","j">>,
    <<".","v","b","p","r","o","j">>, <<".","f","s","p","r","o","j">>,
    <<".","v","c","x","p","r","o","j">>, <<".","s","l","n">>, <<".","t","m","p","l">>,
    <<".","t","p","l">>, <<".","t","e","m","p","l","a","t","e">>,
    <<".","m","u","s","t","a","c","h","e">>, <<".","h","a","n","d","l","e","b","a","r","s">>,
    <<".","h","b","s">>, <<".","e","j","s">>, <<".","e","t","a">>, <<".","j","a","d","e">>,
    <<".","p","u","g">>, <<".","h","a","m","l">>, <<".","s","l","i","m">>,
    <<".","l","i","q","u","i","d">>, <<".","j","2">>, <<".","j","i","n","j","a">>,
    <<".","j","i","n","j","a","2">>
  }

exclude_files == { <<"f","i","l","e","_","m","e","r","g","e","r",".","p","y">> }

output_pattern == <<"_","m","e","r","g","e","d","_">>

(***************************************************************************)
(* FileMerger.is_text_file                                                 *)
(***************************************************************************)
is_text_file(file_path) ==
  LET filename == basename(file_path)
  IN IF filename \in exclude_files \/ startswith(filename, output_pattern)
     THEN FALSE
     ELSE splitext(lower(file_path)) \in supported_extensions

(***************************************************************************)
(* The file system the program runs on.  A directory or a file is named    *)
(* by its components from "/"; a path string is turned into components as  *)
(* the kernel resolves it (empty components are skipped).                  *)
(***************************************************************************)
VARIABLES
  dirs,         \* the directories: a set of component sequences, <<>> is "/"
  files,        \* the regular files: component sequence -> "ok", "noperm" or "baddata"
  unlistable,   \* directories whose listing fails (os.scandir raises OSError)
  outputs,      \* text written to each output file so far: component sequence -> writes
  produced,     \* output files that main has created in earlier or the current run
  pc,           \* position of the running merge_files call
  runs,         \* number of calls of merge_files started so far
  now,          \* the wall clock, in seconds
  faults,       \* failures of the output stream injected so far
  source_dir,   \* merge_files / get_directory_structure argument
  output_file,  \* merge_files argument
  outpath,      \* the file output_file denotes, fixed when merge_files is called
  walkq,        \* file paths os.walk still has to deliver to the loop at line 141
  file_path,    \* the loop's current file_path, is_text_file's argument
  hstep,        \* index of the next write of lines 130-138
  e,            \* the exception caught at line 153
  result,       \* what merge_files returned
  failed,       \* the failures that have occurred during the current call
  ret,          \* what is_text_file returned
  structure     \* what get_directory_structure returned

vars ==
  <<dirs, files, unlistable, outputs, produced, pc, runs, now, faults, source_dir,
    output_file, outpath, walkq, file_path, hstep, e, result, failed, ret, structure>>

RECURSIVE Components(_)
\* the components of a path string
Components(p) ==
  IF p = <<>> THEN <<>>
  ELSE LET i == IF \E k \in 1..Len(p) : p[k] = SEP
                THEN CHOOSE k \in 1..Len(p) : p[k] = SEP /\ \A j \in 1..(k-1) : p[j] # SEP
                ELSE Len(p) + 1
       IN IF i = 1 THEN Components(Tail(p))
          ELSE <<SubSeq(p, 1, i - 1)>> \o Components(Drop(p, i))

RECURSIVE JoinWith(_, _)
\* sep.join(parts)
JoinWith(parts, sep) ==
  IF parts = <<>> THEN <<>>
  ELSE IF Len(parts) = 1 THEN parts[1]
  ELSE parts[1] \o sep \o JoinWith(Tail(parts), sep)

\* os.path.relpath(path, start) for two absolute paths without "." or ".."
relpath(path, start) ==
  LET p == Components(path)
      s == Components(start)
      m == IF Len(p) < Len(s) THEN Len(p) ELSE Len(s)
      i == CHOOSE k \in 0..m :
             /\ SubSeq(p, 1, k) = SubSeq(s, 1, k)
             /\ (k < m => p[k + 1] # s[k + 1])
      up == [k \in 1..(Len(s) - i) |-> <<".", ".">>]
      rel == up \o SubSeq(p, i + 1, Len(p))
  IN IF rel = <<>> THEN <<".">> ELSE JoinWith(rel, <<SEP>>)

RECURSIVE SeqOf(_)
\* the order in which os.scandir delivers a set of names: arbitrary, but
\* the same whenever the same directory is listed again
SeqOf(S) ==
  IF S = {} THEN <<>>
  ELSE LET x == CHOOSE y \in S : TRUE IN <<x>> \o SeqOf(S \ {x})

\* os.scandir(top) succeeds
Listable(top) == Components(top) \in dirs \ unlistable

\* the names of the entries of directory d that are in the set S
Entries(d, S) == {c[Len(c)] : c \in {x \in S : Len(x) = Len(d) + 1 /\ SubSeq(x, 1, Len(d)) = d}}

RECURSIVE walk(_)
RECURSIVE walk_each(_, _)
\* os.walk(top), top-down, onerror=None: a directory whose listing fails is
\* skipped without a report; the result is the sequence of (root, dirs, files)
walk(top) ==
  IF ~Listable(top) THEN <<>>
  ELSE LET d == Components(top)
           subdirs == SeqOf(Entries(d, dirs))
           nondirs == SeqOf(Entries(d, DOMAIN files))
       IN <<[root |-> top, dirs |-> subdirs, files |-> nondirs]>> \o walk_each(top, subdirs)

walk_each(top, subdirs) ==
  IF subdirs = <<>> THEN <<>>
  ELSE walk(join(top, Head(subdirs))) \o walk_each(top, Tail(subdirs))

(***************************************************************************)
(* FileMerger.get_directory_structure                                      *)
(***************************************************************************)
\* '  ' * level
Indent(level) == [i \in 1..(2 * level) |-> " "]

RECURSIVE Flatten(_)
\* concatenation of a sequence of sequences
Flatten(ss) == IF ss = <<>> THEN <<>> ELSE Head(ss) \o Flatten(Tail(ss))

\* the lines appended for one (root, dirs, files) of the walk
structure_lines(startpath, w) ==
  LET level == count(replace(w.root, startpath), SEP)
      indent == Indent(level)
      subindent == Indent(level + 1)
  IN <<indent \o basename(w.root) \o <<"/">>>> \o
     [i \in 1..Len(w.files) |-> subindent \o w.files[i]]

get_directory_structure(startpath) ==
  LET ws == walk(startpath)
  IN JoinWith(Flatten([i \in 1..Len(ws) |-> structure_lines(startpath, ws[i])]), <<"\n">>)

(***************************************************************************)
(* Bounds of the merge model.                                              *)
(***************************************************************************)
\* calls of merge_files in one behaviour
MaxRuns == 2

\* source files present before the first run
MaxFiles == 2

\* failures of the output stream (open, write, close) in one behaviour
MaxFaults == 1

(***************************************************************************)
(* Text written to the output.  One record per outfile.write call: fmt is  *)
(* the literal of the call with {} for what is interpolated, n the repeat  *)
(* count of '=' * n, arg the interpolated string, err the interpolated     *)
(* exception text and data what infile.read() returned.                    *)
(***************************************************************************)
\* the contents of a file: whose text it is and how much of it
NoData == [id |-> <<>>, len |-> 0]

W(fmt, n, arg, err, data) == [fmt |-> fmt, n |-> n, arg |-> arg, err |-> err, data |-> data]

Digits == <<"0","1","2","3","4","5","6","7","8","9">>

\* datetime.now().strftime("%Y-%m-%d %H:%M:%S"), the clock counting the
\* seconds of 2024-01-01 00:00:0x
strftime_log(t) ==
  <<"2","0","2","4","-","0","1","-","0","1"," ","0","0",":","0","0",":","0">> \o <<Digits[t + 1]>>

\* datetime.now().strftime("%Y%m%d_%H%M%S")
strftime_name(t) ==
  <<"2","0","2","4","0","1","0","1","_","0","0","0","0","0">> \o <<Digits[t + 1]>>

\* the width of a delimiter line
DelimWidth == 80

\* the writes of lines 130-138
NumHeaderWrites == 7

\* the writes of lines 148-152
NumSectionWrites == 5

\* HeaderWrite with the tree listing written after the 'File Contents:' header
HeaderWrite_late_tree(k, startpath, t) ==
  CASE k = 1 -> W("Generated on: {}\n\n", 0, strftime_log(t), "", NoData)
    [] k = 2 -> W("Directory Structure:\n", 0, <<>>, "", NoData)
    [] k = 3 -> W("===================\n", 0, <<>>, "", NoData)
    [] k = 4 -> W("File Contents:\n", 0, <<>>, "", NoData)
    [] k = 5 -> W("=============\n\n", 0, <<>>, "", NoData)
    [] k = 6 -> W("{}", 0, get_directory_structure(startpath), "", NoData)
    [] k = 7 -> W("\n\n", 0, <<>>, "", NoData)

\* the k-th write of lines 130-138
HeaderWrite(k, startpath, t) ==
  CASE k = 1 -> W("Generated on: {}\n\n", 0, strftime_log(t), "", NoData)
    [] k = 2 -> W("Directory Structure:\n", 0, <<>>, "", NoData)
    [] k = 3 -> W("===================\n", 0, <<>>, "", NoData)
    [] k = 4 -> W("{}", 0, get_directory_structure(startpath), "", NoData)
    [] k = 5 -> W("\n\n", 0, <<>>, "", NoData)
    [] k = 6 -> W("File Contents:\n", 0, <<>>, "", NoData)
    [] k = 7 -> W("=============\n\n", 0, <<>>, "", NoData)

\* SectionWrite with the 'File:' line naming file_path itself
SectionWrite_fullpath(k, path, startpath, data) ==
  CASE k = 1 -> W("{'=' * n}\n", DelimWidth, <<>>, "", NoData)
    [] k = 2 -> W("File: {}\n", 0, path, "", NoData)
    [] k = 3 -> W("{'=' * n}\n\n", DelimWidth, <<>>, "", NoData)
    [] k = 4 -> W("{}", 0, <<>>, "", data)
    [] k = 5 -> W("\n\n", 0, <<>>, "", NoData)

\* the k-th write of lines 148-152 for file_path, data being infile.read()
SectionWrite(k, path, startpath, data) ==
  CASE k = 1 -> W("{'=' * n}\n", DelimWidth, <<>>, "", NoData)
    [] k = 2 -> W("File: {}\n", 0, relpath(path, startpath), "", NoData)
    [] k = 3 -> W("{'=' * n}\n\n", DelimWidth, <<>>, "", NoData)
    [] k = 4 -> W("{}", 0, <<>>, "", data)
    [] k = 5 -> W("\n\n", 0, <<>>, "", NoData)

\* the write of line 154
ErrorNote(path, err) == W("Error reading file {}: {}\n\n", 0, path, err, NoData)

\* the values merge_files returns
Success == [ok |-> TRUE, msg |-> "Files merged successfully!", err |-> ""]

Failure(err) == [ok |-> FALSE, msg |-> "Error during merge: {}", err |-> err]

NoResult == [ok |-> FALSE, msg |-> "", err |-> ""]

\* exception texts
ENOENT == "No such file or directory"

EACCES == "Permission denied"

ENOSPC == "No space left on device"

EDECODE == "'utf-8' codec can't decode byte"

(***************************************************************************)
(* main and FileMerger.merge_files                                         *)
(***************************************************************************)
\* os.getcwd()
cwd == <<"/","r">>

\* the file a path string denotes, relative paths resolved against cwd
Resolve(p) ==
  IF p # <<>> /\ p[1] = SEP THEN Components(p) ELSE Components(cwd) \o Components(p)

\* the text written through outfile so far
out == IF outpath \in DOMAIN outputs THEN outputs[outpath] ELSE <<>>

\* main calls merge_files with a bare file name, other callers with a path
ViaMain == output_file # <<>> /\ output_file[1] # SEP

\* the name main gives the output file (line 171)
output_name(dir_name, t) ==
  dir_name \o <<"_","m","e","r","g","e","d","_">> \o strftime_name(t) \o <<".","t","x","t">>

\* the file paths the loops of lines 141-143 deliver, in order
file_paths(startpath) ==
  LET ws == walk(startpath)
  IN Flatten([i \in 1..Len(ws) |-> [j \in 1..Len(ws[i].files) |-> join(ws[i].root, ws[i].files[j])]])

\* the directories whose listing fails while os.walk(startpath) runs
walk_errors(startpath) ==
  LET ws == walk(startpath)
      tried == {startpath} \cup
               UNION {{join(ws[i].root, ws[i].dirs[j]) : j \in 1..Len(ws[i].dirs)} : i \in 1..Len(ws)}
  IN {p \in tried : ~Listable(p)}

\* handler with line 154 inside the try block of line 145
handler_note_inner(stage) ==
  IF stage \in {"open_source", "read_source", "section", "note"} THEN "inner" ELSE "outer"

\* handler with the open of line 146 outside the try block of line 145
handler_open_outer(stage) ==
  IF stage \in {"read_source", "section"} THEN "inner" ELSE "outer"

\* which except clause catches an exception raised at a stage of merge_files:
\* the one of line 153 around lines 146-152, the one of line 157 around the rest
handler(stage) ==
  IF stage \in {"open_source", "read_source", "section"} THEN "inner" ELSE "outer"

\* an exception with text err is raised at a stage, by operation op on path
Raise(op, stage, path, err) ==
  /\ failed' = failed \cup {[op |-> op, stage |-> stage, path |-> path, err |-> err]}
  /\ IF handler(stage) = "inner"
     THEN /\ e' = err
          /\ pc' = "note"
          /\ UNCHANGED result
     ELSE /\ result' = Failure(err)
          /\ pc' = "done"
          /\ UNCHANGED e

\* outfile.write(w) succeeds
Put(w) == outputs' = [outputs EXCEPT ![outpath] = Append(@, w)]

\* the output stream fails: allowed while the budget of injected failures lasts
Fault == faults < MaxFaults /\ faults' = faults + 1

\* lines 160-176: main names the output after the directory and the clock
Main ==
  /\ pc = "idle"
  /\ output_file' = output_name(basename(cwd), now)
  /\ outpath' = Resolve(output_name(basename(cwd), now))
  /\ source_dir' = cwd
  /\ runs' = runs + 1
  /\ pc' = "open"
  /\ result' = NoResult
  /\ failed' = {}
  /\ UNCHANGED <<dirs, files, unlistable, outputs, produced, now, faults, walkq, file_path,
                 hstep, e, ret, structure>>

\* the directories and output paths other callers pass to merge_files
SourceDirs == {<<"/","r","/">>}

OutputFiles == {<<"/","o","u","t",".","t","x","t">>, <<"/","o","/","o","u","t",".","t","x","t">>}

\* line 124: merge_files(source_dir, output_file) called directly
CallMerge ==
  /\ pc = "idle"
  /\ \E sd \in SourceDirs, of \in OutputFiles :
       /\ source_dir' = sd
       /\ output_file' = of
       /\ outpath' = Resolve(of)
  /\ runs' = runs + 1
  /\ pc' = "open"
  /\ result' = NoResult
  /\ failed' = {}
  /\ UNCHANGED <<dirs, files, unlistable, outputs, produced, now, faults, walkq, file_path,
                 hstep, e, ret, structure>>

\* line 127: open(output_file, 'w') creates or truncates the file
OpenOutput ==
  /\ pc = "open"
  /\ \/ /\ SubSeq(outpath, 1, Len(outpath) - 1) \in dirs
        /\ files' = [c \in DOMAIN files \cup {outpath} |-> IF c = outpath THEN "ok" ELSE files[c]]
        /\ outputs' = [c \in DOMAIN outputs \cup {outpath} |-> IF c = outpath THEN <<>> ELSE outputs[c]]
        /\ produced' = IF ViaMain THEN produced \cup {outpath} ELSE produced
        /\ pc' = "header"
        /\ hstep' = 1
        /\ UNCHANGED <<faults, failed, result, e>>
     \/ /\ SubSeq(outpath, 1, Len(outpath) - 1) \notin dirs
        /\ Raise("open_output", "open", output_file, ENOENT)
        /\ UNCHANGED <<files, outputs, produced, faults, hstep>>
     \/ /\ Fault
        /\ Raise("open_output", "open", output_file, EACCES)
        /\ UNCHANGED <<files, outputs, produced, hstep>>
  /\ UNCHANGED <<dirs, unlistable, runs, now, source_dir, output_file, outpath, walkq, file_path,
                 ret, structure>>

\* lines 129-138: the timestamp, the tree listing and the two headers
WriteHeader ==
  /\ pc = "header"
  /\ \/ /\ Put(HeaderWrite(hstep, source_dir, now))
        /\ IF hstep = NumHeaderWrites
           THEN pc' = "walk" /\ UNCHANGED hstep
           ELSE pc' = pc /\ hstep' = hstep + 1
        /\ UNCHANGED <<faults, failed, result, e>>
     \/ /\ Fault
        /\ Raise("write", "header", output_file, ENOSPC)
        /\ UNCHANGED <<outputs, hstep>>
  /\ UNCHANGED <<dirs, files, unlistable, produced, runs, now, source_dir, output_file, outpath,
                 walkq, file_path, ret, structure>>

\* line 141: os.walk(source_dir) of the file loop
Walk ==
  /\ pc = "walk"
  /\ walkq' = file_paths(source_dir)
  /\ failed' = failed \cup
       {[op |-> "listdir", stage |-> "walk", path |-> p, err |-> EACCES] : p \in walk_errors(source_dir)}
  /\ pc' = "loop"
  /\ UNCHANGED <<dirs, files, unlistable, outputs, produced, runs, now, faults, source_dir,
                 output_file, outpath, file_path, hstep, e, result, ret, structure>>

\* lines 142-144: the next file of the walk, kept when is_text_file accepts it
NextFile ==
  /\ pc = "loop"
  /\ IF walkq = <<>>
     THEN pc' = "close" /\ UNCHANGED <<walkq, file_path>>
     ELSE /\ file_path' = Head(walkq)
          /\ walkq' = Tail(walkq)
          /\ pc' = IF is_text_file(Head(walkq)) THEN "openfile" ELSE "loop"
  /\ UNCHANGED <<dirs, files, unlistable, outputs, produced, runs, now, faults, source_dir,
                 output_file, outpath, hstep, e, result, failed, ret, structure>>

\* line 146: open(file_path, 'r')
OpenSource ==
  /\ pc = "openfile"
  /\ IF files[Components(file_path)] = "noperm"
     THEN /\ Raise("open_source", "open_source", file_path, EACCES)
          /\ UNCHANGED hstep
     ELSE /\ pc' = "section"
          /\ hstep' = 1
          /\ UNCHANGED <<failed, result, e>>
  /\ UNCHANGED <<dirs, files, unlistable, outputs, produced, runs, now, faults, source_dir,
                 output_file, outpath, walkq, file_path, ret, structure>>

\* what infile.read() can return: the text of a source file, all of an
\* output file that is complete, and as much of the output file being
\* written as has left the stream's buffer
ReadData(c) ==
  IF c \notin DOMAIN outputs THEN {[id |-> c, len |-> 1]}
  ELSE IF c = outpath THEN {[id |-> c, len |-> k] : k \in 0..Len(outputs[c])}
  ELSE {[id |-> c, len |-> Len(outputs[c])]}

\* lines 147-152: the delimiter block, the contents and the trailing newlines
WriteSection ==
  /\ pc = "section"
  /\ \/ /\ hstep = 4
        /\ files[Components(file_path)] = "baddata"
        /\ Raise("read_source", "read_source", file_path, EDECODE)
        /\ UNCHANGED <<outputs, hstep, faults>>
     \/ /\ hstep = 4 => files[Components(file_path)] # "baddata"
        /\ \E data \in ReadData(Components(file_path)) :
             Put(SectionWrite(hstep, file_path, source_dir, data))
        /\ IF hstep = NumSectionWrites
           THEN pc' = "loop" /\ UNCHANGED hstep
           ELSE pc' = pc /\ hstep' = hstep + 1
        /\ UNCHANGED <<faults, failed, result, e>>
     \/ /\ hstep = 4 => files[Components(file_path)] # "baddata"
        /\ Fault
        /\ Raise("write", "section", output_file, ENOSPC)
        /\ UNCHANGED <<outputs, hstep>>
  /\ UNCHANGED <<dirs, files, unlistable, produced, runs, now, source_dir, output_file, outpath,
                 walkq, file_path, ret, structure>>

\* WriteNote with the handler leaving the loops after its note
WriteNote_break ==
  /\ pc = "note"
  /\ \/ /\ Put(ErrorNote(file_path, e))
        /\ pc' = "close"
        /\ UNCHANGED <<faults, failed, result, e>>
     \/ /\ Fault
        /\ Raise("write", "note", output_file, ENOSPC)
        /\ UNCHANGED outputs
  /\ UNCHANGED <<dirs, files, unlistable, produced, runs, now, source_dir, output_file, outpath,
                 walkq, file_path, hstep, ret, structure>>

\* line 154: the inline note of the per-file handler
WriteNote ==
  /\ pc = "note"
  /\ \/ /\ Put(ErrorNote(file_path, e))
        /\ pc' = "loop"
        /\ UNCHANGED <<faults, failed, result, e>>
     \/ /\ Fault
        /\ Raise("write", "note", output_file, ENOSPC)
        /\ UNCHANGED outputs
  /\ UNCHANGED <<dirs, files, unlistable, produced, runs, now, source_dir, output_file, outpath,
                 walkq, file_path, hstep, ret, structure>>

\* line 156: return inside the with block, which flushes and closes outfile
Close ==
  /\ pc = "close"
  /\ \/ /\ result' = Success
        /\ pc' = "done"
        /\ UNCHANGED <<faults, failed, e>>
     \/ /\ Fault
        /\ Raise("close", "close", output_file, ENOSPC)
  /\ UNCHANGED <<dirs, files, unlistable, outputs, produced, runs, now, source_dir,
                 output_file, outpath, walkq, file_path, hstep, ret, structure>>

\* the process has ended and the tool is started again in the same directory,
\* within the same second or a second later
Rerun ==
  /\ pc = "done"
  /\ runs < MaxRuns
  /\ pc' = "idle"
  /\ \E t \in {now, now + 1} : t < Len(Digits) /\ now' = t
  /\ UNCHANGED <<dirs, files, unlistable, outputs, produced, runs, faults, source_dir,
                 output_file, outpath, walkq, file_path, hstep, e, result, failed, ret, structure>>

(***************************************************************************)
(* The file systems and inputs the model starts from.                      *)
(***************************************************************************)
R == <<"r">>

S == <<"s">>

Modes == {"ok", "noperm", "baddata"}

\* the names of the source files of the merge model
FileNames == {<<"a",".","p","y">>, <<"c",".","p","n","g">>}

\* the directory trees of the merge model: /r, with or without /r/s
DirChoices == {{<<>>, <<R>>}, {<<>>, <<R>>, <<R, S>>}}

FilePlaces(D) == {d \o <<n>> : d \in D \ {<<>>}, n \in FileNames}

\* the values of the variables a specification does not use
IdleCall ==
  /\ pc = "idle"
  /\ runs = 0
  /\ now = 0
  /\ faults = 0
  /\ output_file = <<>>
  /\ outpath = <<>>
  /\ walkq = <<>>
  /\ hstep = 1
  /\ e = ""
  /\ result = NoResult
  /\ failed = {}
  /\ outputs = <<>>
  /\ produced = {}

\* any of the trees, up to MaxFiles files in it, any directory below the root
\* unlistable; a file the filter rejects is never opened, so only the files
\* it accepts are given the modes on which open or read fails
Init ==
  /\ dirs \in DirChoices
  /\ unlistable \in SUBSET (dirs \ {<<>>, <<R>>})
  /\ \E F \in {X \in SUBSET FilePlaces(dirs) : Cardinality(X) <= MaxFiles} :
       /\ files \in [F -> Modes]
       /\ \A f \in F : ~is_text_file(JoinWith(f, <<SEP>>)) => files[f] = "ok"
  /\ IdleCall
  /\ source_dir = <<>>
  /\ file_path = <<>>
  /\ ret = FALSE
  /\ structure = <<>>

Next ==
  \/ Main
  \/ CallMerge
  \/ OpenOutput
  \/ WriteHeader
  \/ Walk
  \/ NextFile
  \/ OpenSource
  \/ WriteSection
  \/ WriteNote
  \/ Close

\* one call of merge_files, by main or directly, on any of the file systems,
\* with failures of the source files, of the listing and of the output stream
Spec == Init /\ [][Next]_vars

\* the tool run again and again in the same directory: every source file
\* readable, every directory listable, the output stream never failing
InitMain ==
  /\ dirs \in DirChoices
  /\ unlistable = {}
  /\ \E F \in {X \in SUBSET FilePlaces(dirs) : Cardinality(X) <= MaxFiles} : files = [f \in F |-> "ok"]
  /\ IdleCall
  /\ source_dir = <<>>
  /\ file_path = <<>>
  /\ ret = FALSE
  /\ structure = <<>>

NextMain ==
  \/ Main
  \/ Rerun
  \/ OpenOutput
  \/ WriteHeader
  \/ Walk
  \/ NextFile
  \/ OpenSource
  \/ WriteSection
  \/ WriteNote
  \/ Close

SpecMain == InitMain /\ [][NextMain]_vars

(***************************************************************************)
(* is_text_file on its own: every short name over a small alphabet and a   *)
(* few names of the kinds the program meets, bare and below a directory.   *)
(***************************************************************************)
FilterAlphabet == {".", "p", "y", "P", "_"}

NotableNames ==
  { <<"f","i","l","e","_","m","e","r","g","e","r",".","p","y">>,
    <<"F","i","l","e","_","M","e","r","g","e","r",".","p","y">>,
    <<".","g","i","t","i","g","n","o","r","e">>,
    <<".","e","n","v">>,
    <<"p","h","o","t","o",".","p","n","g">>,
    <<"n","o","t","e","s">>,
    <<"_","m","e","r","g","e","d","_","1",".","t","x","t">>,
    <<"r","_","m","e","r","g","e","d","_","1",".","t","x","t">> }

FilterNames == NotableNames \cup UNION {[1..k -> FilterAlphabet] : k \in 1..MaxNameLen}

FilterDirs == {<<>>, <<"/","r",".","d","/">>}

InitFilter ==
  /\ \E d \in FilterDirs, n \in FilterNames : file_path = d \o n
  /\ ret = FALSE
  /\ IdleCall
  /\ dirs = {<<>>}
  /\ files = <<>>
  /\ unlistable = {}
  /\ source_dir = <<>>
  /\ structure = <<>>

\* a call of is_text_file(file_path)
IsTextFile ==
  /\ pc = "idle"
  /\ pc' = "returned"
  /\ ret' = is_text_file(file_path)
  /\ UNCHANGED <<dirs, files, unlistable, outputs, produced, runs, now, faults, source_dir,
                 output_file, outpath, walkq, file_path, hstep, e, result, failed, structure>>

NextFilter == IsTextFile

SpecFilter == InitFilter /\ [][NextFilter]_vars

(***************************************************************************)
(* get_directory_structure on its own: every tree of directories named r   *)
(* or s below /r, up to a depth, a file in any of them, and the root given  *)
(* with and without a trailing separator.                                  *)
(***************************************************************************)
\* nesting depth of the trees below the root
MaxDepth == 2

DirNames == {R, S}

TreeAll == {<<R>> \o s : s \in UNION {[1..k -> DirNames] : k \in 0..MaxDepth}}

TreeShapes ==
  {D \in SUBSET TreeAll :
     /\ <<R>> \in D
     /\ \A d \in D : Len(d) > 1 => SubSeq(d, 1, Len(d) - 1) \in D}

StartPaths == {<<"/","r">>, <<"/","r","/">>}

InitTree ==
  /\ \E D \in TreeShapes :
       /\ dirs = D \cup {<<>>}
       /\ \E F \in SUBSET {d \o <<<<"a",".","p","y">>>> : d \in D} : files = [f \in F |-> "ok"]
  /\ unlistable = {}
  /\ source_dir \in StartPaths
  /\ IdleCall
  /\ file_path = <<>>
  /\ ret = FALSE
  /\ structure = <<>>

\* a call of get_directory_structure(source_dir)
GetDirectoryStructure ==
  /\ pc = "idle"
  /\ pc' = "returned"
  /\ structure' = get_directory_structure(source_dir)
  /\ UNCHANGED <<dirs, files, unlistable, outputs, produced, runs, now, faults, source_dir,
                 output_file, outpath, walkq, file_path, hstep, e, result, failed, ret>>

NextTree == GetDirectoryStructure

SpecTree == InitTree /\ [][NextTree]_vars

(***************************************************************************)
(* Vocabulary of the properties.                                           *)
(***************************************************************************)
RECURSIVE SplitOn(_, _)
\* the pieces of s between the occurrences of the character c
SplitOn(s, c) ==
  IF \E k \in 1..Len(s) : s[k] = c
  THEN LET i == CHOOSE k \in 1..Len(s) : s[k] = c /\ \A j \in 1..(k-1) : s[j] # c
       IN <<SubSeq(s, 1, i - 1)>> \o SplitOn(Drop(s, i), c)
  ELSE <<s>>

\* the files below the root of the running call
UnderRoot(f) ==
  LET rc == Components(source_dir) IN Len(f) > Len(rc) /\ SubSeq(f, 1, Len(rc)) = rc

\* the path of a file below the root, relative to the root
RelativeName(f) == JoinWith(SubSeq(f, Len(Components(source_dir)) + 1, Len(f)), <<SEP>>)

\* the files below the root that the filter accepts
Mergeable == {f \in DOMAIN files : UnderRoot(f) /\ is_text_file(JoinWith(f, <<SEP>>))}

IsDelimLine(w, newlines) ==
  /\ w.n = 80
  /\ w.fmt = (IF newlines = 1 THEN "{'=' * n}\n" ELSE "{'=' * n}\n\n")

IsFileLine(w, rel) == w.fmt = "File: {}\n" /\ w.arg = rel

IsNote(w) == w.fmt = "Error reading file {}: {}\n\n"

\* out[i..i+2] is the delimiter block of the file with relative path rel
HeaderBlockAt(i, rel) ==
  /\ i >= 1
  /\ i + 2 <= Len(out)
  /\ IsDelimLine(out[i], 1)
  /\ IsFileLine(out[i + 1], rel)
  /\ IsDelimLine(out[i + 2], 2)

\* out[i..i+4] is a complete section of file f
SectionAt(i, f) ==
  /\ HeaderBlockAt(i, RelativeName(f))
  /\ i + 4 <= Len(out)
  /\ out[i + 3].fmt = "{}"
  /\ out[i + 3].data.id = f
  /\ (f \notin DOMAIN outputs => out[i + 3].data.len = 1)
  /\ out[i + 4].fmt = "\n\n"

OutputFailures == {f \in failed : f.op \in {"open_output", "write", "close"}}

SourceFailures == {f \in failed : f.op \in {"open_source", "read_source"}}

Returned == pc = "done"

(***************************************************************************)
(* C1.  is_text_file returns true exactly when the lowercased extension    *)
(* (the substring from the final '.' of the basename, empty if there is    *)
(* none) is in the allow-list, the basename is not 'file_merger.py' and    *)
(* the basename does not start with the output-file prefix.                *)
(***************************************************************************)
\* the extension as the claim defines it
ClaimedExtension(name) ==
  IF rfind(name, EXTSEP) = 0 THEN <<>> ELSE lower(Drop(name, rfind(name, EXTSEP) - 1))

\* C1: is_text_file accepts a name iff its extension, taken from the final
\* '.' of the basename and lowercased, is in the allow-list and the basename
\* is neither excluded nor starts with the output prefix
C1_FilterIffExtensionAllowed ==
  pc = "returned" =>
    (ret <=> /\ ClaimedExtension(basename(file_path)) \in supported_extensions
             /\ basename(file_path) \notin exclude_files
             /\ ~startswith(basename(file_path), output_pattern))

(***************************************************************************)
(* C2.  After several runs of the tool in one directory the newest output  *)
(* has no section for an earlier output, and lists each in its tree.       *)
(***************************************************************************)
EarlierOutputs == produced \ {outpath}

\* C2: the newest output of main has no 'File:' section for an output of an
\* earlier run, and its tree listing has a line for each of them
C2_EarlierOutputsListedNotMerged ==
  (Returned /\ result.ok /\ ViaMain) =>
    \A o \in EarlierOutputs :
      /\ ~\E i \in 1..Len(out) : IsFileLine(out[i], o[Len(o)])
      /\ \E i \in 1..Len(SplitOn(out[4].arg, "\n")) :
           SplitOn(out[4].arg, "\n")[i] = <<" ", " ">> \o o[Len(o)]

(***************************************************************************)
(* C3.  With every file readable, merge writes exactly one section for     *)
(* each file the filter accepts and none for any other file.               *)
(***************************************************************************)
NothingFails == failed = {} /\ unlistable = {} /\ \A f \in DOMAIN files : files[f] = "ok"

\* C3: when nothing fails, what follows the seven header writes is one
\* complete section (80-'=' line, 'File: <relative path>', 80-'=' line and
\* blank line, the contents, two newlines) for each accepted file below the
\* root, and nothing else
C3_OneSectionPerMergeableFile ==
  (Returned /\ result.ok /\ NothingFails) =>
    /\ Len(out) = 7 + 5 * Cardinality(Mergeable)
    /\ \A f \in Mergeable : \E k \in 0..(Cardinality(Mergeable) - 1) : SectionAt(8 + 5 * k, f)

\* a run that merged a file and left another one out
C3_Witness ==
  /\ Returned /\ result.ok /\ NothingFails
  /\ \E f \in Mergeable : f # outpath
  /\ \E f \in DOMAIN files : UnderRoot(f) /\ f \notin Mergeable

(***************************************************************************)
(* C4.  A mergeable file that cannot be read leaves its header block and   *)
(* an 'Error reading file' line, and the files after it are processed.     *)
(***************************************************************************)
\* C4 as claimed: every note about a source file follows the header block
\* of that file, whether opening or reading it failed
C4_NoteFollowsHeaderBlock ==
  \A i \in 1..Len(out) :
    (IsNote(out[i]) /\ out[i].err \in {EACCES, EDECODE}) =>
      HeaderBlockAt(i - 3, relpath(out[i].arg, source_dir))

\* file path p of the walk has a section or a note in the output
Processed(p) ==
  \E i \in 1..Len(out) :
    \/ IsFileLine(out[i], relpath(p, source_dir))
    \/ IsNote(out[i]) /\ out[i].arg = p

\* C4 as amended: a note about a failed read follows the file's header
\* block; a note about a failed open stands without any header block of that
\* file; when merge returns success every source failure has its note and
\* every accepted file of the walk has a section or a note
C4_NoteWithBlockOnlyAfterReadFailure ==
  /\ \A i \in 1..Len(out) :
       (IsNote(out[i]) /\ out[i].err = EDECODE) =>
         HeaderBlockAt(i - 3, relpath(out[i].arg, source_dir))
  /\ \A i \in 1..Len(out) :
       (IsNote(out[i]) /\ out[i].err = EACCES) =>
         ~\E j \in 1..Len(out) : IsFileLine(out[j], relpath(out[i].arg, source_dir))
  /\ (Returned /\ result.ok) =>
       /\ \A f \in SourceFailures :
            \E i \in 1..Len(out) : IsNote(out[i]) /\ out[i].arg = f.path /\ out[i].err = f.err
       /\ LET delivered == file_paths(source_dir)
          IN \A k \in 1..Len(delivered) : is_text_file(delivered[k]) => Processed(delivered[k])

\* a run in which opening one file and reading another failed, and a file
\* after a failed one got its section
C4_Witness ==
  /\ Returned /\ result.ok
  /\ \E f \in SourceFailures : f.op = "open_source"
  /\ \E i \in 2..Len(out), f \in Mergeable :
       /\ IsNote(out[i - 1])
       /\ out[i - 1].err \in {EACCES, EDECODE}
       /\ SectionAt(i, f)

RECURSIVE ListingOf(_, _, _)
RECURSIVE ListingOfEach(_, _, _)
\* the lines of directory d, shown under name at nesting depth level, and of
\* all below it
ListingOf(d, name, level) ==
  <<Indent(level) \o name \o <<"/">>>> \o
  [i \in 1..Len(SeqOf(Entries(d, DOMAIN files))) |->
     Indent(level + 1) \o SeqOf(Entries(d, DOMAIN files))[i]] \o
  ListingOfEach(d, SeqOf(Entries(d, dirs)), level + 1)

ListingOfEach(d, subdirs, level) ==
  IF subdirs = <<>> THEN <<>>
  ELSE ListingOf(d \o <<Head(subdirs)>>, Head(subdirs), level) \o
       ListingOfEach(d, Tail(subdirs), level)

\* C6: the listing is, in pre-order, the basename of each directory followed
\* by '/' at two spaces per nesting level below the root, and each file one
\* level deeper than its directory
C6_TreeIndentedByDepth ==
  pc = "returned" =>
    structure = JoinWith(ListingOf(Components(source_dir), basename(source_dir), 0), <<"\n">>)

(***************************************************************************)
(* C7.  No failure during merge is dropped silently.                       *)
(***************************************************************************)
\* C7: when merge has returned, every failure that occurred has an inline
\* note with its error text or is the error of the returned failure
C7_NoFailureDropped ==
  Returned =>
    \A f \in failed :
      \/ \E i \in 1..Len(out) :
           /\ IsNote(out[i])
           /\ out[i].err = f.err
           /\ (f \in SourceFailures => out[i].arg = f.path)
      \/ ~result.ok /\ result.err = f.err

(***************************************************************************)
(* C8.  The header, the tree listing and the 'File Contents:' header are   *)
(* written, in this order, before any file section or note.                *)
(***************************************************************************)
HeaderOrder ==
  << "Generated on: {}\n\n", "Directory Structure:\n", "===================\n", "{}",
     "\n\n", "File Contents:\n", "=============\n\n" >>

\* C8: the first seven writes are the timestamp line, the 'Directory
\* Structure:' header and underline, the tree listing, a blank line and the
\* 'File Contents:' header and underline, in this order; the listing is the
\* whole listing when the first section or note is about to be written and
\* when merge returns; no part of a section and no note is among the seven
C8_HeaderBeforeSections ==
  /\ \A k \in 1..Len(out) : k <= 7 => out[k].fmt = HeaderOrder[k] /\ out[k].n = 0
  /\ (Len(out) >= 4 /\ (pc = "walk" \/ Returned)) => out[4].arg = get_directory_structure(source_dir)
  /\ \A k \in 1..Len(out) :
       (out[k].n = 80 \/ out[k].fmt = "File: {}\n" \/ IsNote(out[k]) \/ out[k].data # NoData) => k > 7

\* a call that has written a section and a note after the header
C8_Witness ==
  /\ Returned
  /\ \E i, j \in 8..Len(out) : out[i].fmt = "File: {}\n" /\ IsNote(out[j])

(***************************************************************************)
(* C9.  The result depends on the failures of the output only.             *)
(***************************************************************************)
\* C9: merge returns (True, 'Files merged successfully!') whenever opening,
\* writing and closing the output succeeded, whatever happened to the source
\* files, and a returned failure carries the text of a failure of the output
C9_ResultFromOutputFailuresOnly ==
  Returned =>
    /\ OutputFailures = {} => result = [ok |-> TRUE, msg |-> "Files merged successfully!", err |-> ""]
    /\ ~result.ok => \E f \in OutputFailures : result.err = f.err

\* a successful call in which every accepted file, two at least, failed
C9_Witness ==
  /\ Returned /\ result.ok
  /\ OutputFailures = {}
  /\ Cardinality(SourceFailures) >= 2
  /\ \A f \in Mergeable : \E g \in SourceFailures : Components(g.path) = f

(***************************************************************************)
(* C10.  Run through main, merge never reads the file it is writing.       *)
(***************************************************************************)
\* C10: the output of a run of main has no 'File:' section under its own
\* name and no contents read from itself
C10_OwnOutputNotMerged ==
  ViaMain =>
    \A i \in 1..Len(out) :
      /\ ~IsFileLine(out[i], output_file)
      /\ out[i].data.id # outpath

====
